---- MODULE Spec2Model ----
(***************************************************************************)
(* Topology-aware alarm correlation (src/logic.py): the rule-based         *)
(* CausalInferenceEngine.analyze_alarms and the breadth-first              *)
(* simulate_cascade_failure.                                               *)
(*                                                                         *)
(* Device ids and redundancy-group tags are strings in the source; here    *)
(* they are positive integers, and Python's None is 0.  The topology dict  *)
(* is keyed by node id and iterated in insertion order, which the model    *)
(* takes to be the order 1, 2, ... of its keys.                            *)
(***************************************************************************)
EXTENDS Integers, Sequences, FiniteSets, TLC

\* ------------------------------------------------------------- bounds
NumNodes == 3       \* nodes of a topology analysed with arbitrary alarm batches
MaxAlarms == 2      \* longest ingested alarm batch
NumGroups == 1      \* distinct redundancy-group tags
SimNodes == 4       \* nodes of a topology the cascade simulator walks
ForestLayers == 3   \* layers 1..ForestLayers of a strictly layered forest

\* ---------------------------------------------------------- constants
UnknownRank == 999  \* sort key of an alarm whose device is not in the topology

None == 0
Ghost == NumNodes + SimNodes + 1   \* a device id that is in no topology

VARIABLES topology, alarms, result, pc,
          root_cause_id, queue, processed, generated_alarms

vars == <<topology, alarms, result, pc, root_cause_id, queue, processed, generated_alarms>>

\* ---------------------------------------------------------- data model
\* severity: str # CRITICAL, WARNING, INFO
Severities == {"CRITICAL", "WARNING", "INFO"}

Alarm(device_id, message, severity) ==
    [device_id |-> device_id, message |-> message, severity |-> severity]

NetworkNode(id, layer, parent_id, redundancy_group) ==
    [id |-> id, layer |-> layer, parent_id |-> parent_id,
     redundancy_group |-> redundancy_group]

\* Optional[NetworkNode] = None
NoNode == NetworkNode(None, 0, None, None)

InferenceResult(root_cause_node, root_cause_reason, sop_key, related_alarms, severity) ==
    [root_cause_node |-> root_cause_node, root_cause_reason |-> root_cause_reason,
     sop_key |-> sop_key, related_alarms |-> related_alarms, severity |-> severity]

\* Optional[InferenceResult] = None; also the value of result before any call returns
NoResult == InferenceResult(NoNode, <<>>, "", <<>>, "")

\* Python truthiness of an Optional[str] holding None or a non-empty string
Truthy(x) == x # None

\* topology.get(device_id)
TopologyGet(device_id) ==
    IF device_id \in DOMAIN topology THEN topology[device_id] ELSE NoNode

\* topology.values(), in dict order
TopologyValues == [i \in 1..Cardinality(DOMAIN topology) |-> topology[i]]

\* ------------------------------------------------- analyze_alarms, step 1
\* key=lambda a: self.topology[a.device_id].layer if a.device_id in self.topology else 999
SortKey(a) ==
    IF a.device_id \in DOMAIN topology THEN topology[a.device_id].layer ELSE UnknownRank

\* one insertion of a stable sort: a goes after every element whose key is <= its own
InsertStable(s, a) ==
    LET k == Cardinality({i \in 1..Len(s) : SortKey(s[i]) <= SortKey(a)})
    IN  SubSeq(s, 1, k) \o <<a>> \o SubSeq(s, k + 1, Len(s))

\* sorted(alarms, key=...): a new list, stable
RECURSIVE sorted_alarms(_)
sorted_alarms(batch) ==
    IF batch = <<>> THEN <<>>
    ELSE InsertStable(sorted_alarms(SubSeq(batch, 1, Len(batch) - 1)), batch[Len(batch)])

\* {a.device_id for a in alarms}
alarmed_device_ids(batch) == {batch[i].device_id : i \in 1..Len(batch)}

\* ------------------------------------- faulty variants of the rules
\* a group counts as totally failed as soon as one member is down
_analyze_redundancy_any_down(node, alarmed_ids, batch) ==
    LET group_members == SelectSeq(TopologyValues,
                             LAMBDA n : n.redundancy_group = node.redundancy_group)
        down_members == SelectSeq(group_members, LAMBDA n : n.id \in alarmed_ids)
    IN  IF Len(down_members) > 0
        THEN InferenceResult(node, <<"ha total", node.redundancy_group>>,
                             "HA_TOTAL_FAILURE", batch, "CRITICAL")
        ELSE InferenceResult(node, <<"ha partial", node.redundancy_group>>,
                             "HA_PARTIAL_FAILURE", batch, "WARNING")

\* the silent-parent rule fires when some child, not every child, is down
_check_silent_failure_any_child(parent_id, alarmed_ids) ==
    LET parent_node == TopologyGet(parent_id)
        children == SelectSeq(TopologyValues, LAMBDA n : n.parent_id = parent_id)
        children_down == Len(SelectSeq(children, LAMBDA c : c.id \in alarmed_ids))
    IN  IF parent_node = NoNode THEN NoResult
        ELSE IF Len(children) > 0 /\ children_down > 0
        THEN InferenceResult(parent_node, <<"silent failure", parent_id>>,
                             "SILENT_FAILURE", <<>>, "CRITICAL")
        ELSE NoResult

\* the severity is looked up in alarm_map, where the last alarm of a device wins
root_severity_from_alarm_map(top_alarm) ==
    LET same == {i \in 1..Len(alarms) : alarms[i].device_id = top_alarm.device_id}
        last == CHOOSE i \in same : \A j \in same : j <= i
    IN  alarms[last].severity

\* ------------------------------------------------- _analyze_redundancy
_analyze_redundancy(node, alarmed_ids, batch) ==
    LET group_members == SelectSeq(TopologyValues,
                             LAMBDA n : n.redundancy_group = node.redundancy_group)
        down_members == SelectSeq(group_members, LAMBDA n : n.id \in alarmed_ids)
    IN  IF Len(down_members) = Len(group_members)
        THEN InferenceResult(node, <<"ha total", node.redundancy_group>>,
                             "HA_TOTAL_FAILURE", batch, "CRITICAL")
        ELSE InferenceResult(node, <<"ha partial", node.redundancy_group>>,
                             "HA_PARTIAL_FAILURE", batch, "WARNING")

\* ------------------------------------- _check_silent_failure_for_parent
_check_silent_failure_for_parent(parent_id, alarmed_ids) ==
    LET parent_node == TopologyGet(parent_id)
        children == SelectSeq(TopologyValues, LAMBDA n : n.parent_id = parent_id)
        children_down == Len(SelectSeq(children, LAMBDA c : c.id \in alarmed_ids))
    IN  IF parent_node = NoNode THEN NoResult
        ELSE IF Len(children) > 0 /\ children_down = Len(children)
        THEN InferenceResult(parent_node, <<"silent failure", parent_id>>,
                             "SILENT_FAILURE", <<>>, "CRITICAL")
        ELSE NoResult

\* ------------------------------------------------------- analyze_alarms
\* faulty variant: the direct-attribution verdict is always WARNING
root_severity_warning(top_alarm) == "WARNING"

\* rule C: the input alarm's own severity is passed through
root_severity(top_alarm) == top_alarm.severity

hierarchy_failure(top_node, top_alarm, batch) ==
    InferenceResult(top_node, <<"hierarchy", top_node.id, top_alarm.message>>,
                    "HIERARCHY_FAILURE", batch, root_severity(top_alarm))

\* faulty variant: the silent-parent rule is tried before the redundancy rule
apply_rules_silent_first(top_node, top_alarm, alarmed_ids, batch) ==
    LET silent_res == IF Truthy(top_node.parent_id)
                      THEN LET parent_node == TopologyGet(top_node.parent_id)
                               children == SelectSeq(TopologyValues,
                                               LAMBDA n : n.parent_id = top_node.parent_id)
                           IN  IF parent_node # NoNode
                                  /\ \A i \in 1..Len(children) : children[i].id \in alarmed_ids
                               THEN InferenceResult(parent_node,
                                        <<"silent failure", top_node.parent_id>>,
                                        "SILENT_FAILURE", <<>>, "CRITICAL")
                               ELSE NoResult
                      ELSE NoResult
    IN  IF silent_res # NoResult THEN silent_res
        ELSE IF Truthy(top_node.redundancy_group)
        THEN InferenceResult(top_node, <<"ha partial", top_node.redundancy_group>>,
                             "HA_PARTIAL_FAILURE", batch, "WARNING")
        ELSE InferenceResult(top_node, <<"hierarchy", top_node.id, top_alarm.message>>,
                             "HIERARCHY_FAILURE", batch, top_alarm.severity)

\* rules A, B, C in the order of the code, for a resolved top node
apply_rules(top_node, top_alarm, alarmed_ids, batch) ==
    IF Truthy(top_node.redundancy_group)
    THEN _analyze_redundancy(top_node, alarmed_ids, batch)
    ELSE LET silent_res == IF Truthy(top_node.parent_id)
                           THEN _check_silent_failure_for_parent(top_node.parent_id, alarmed_ids)
                           ELSE NoResult
         IN  IF silent_res # NoResult THEN silent_res
             ELSE hierarchy_failure(top_node, top_alarm, batch)

analyze_alarms(batch) ==
    LET alarmed_ids == alarmed_device_ids(batch)
        sorted == sorted_alarms(batch)
    IN  IF sorted = <<>>
        THEN InferenceResult(NoNode, <<"no alarms">>, "DEFAULT", <<>>, "INFO")
        ELSE LET top_alarm == sorted[1]
                 top_node == TopologyGet(top_alarm.device_id)
             IN  IF top_node = NoNode
                 THEN InferenceResult(NoNode, <<"unknown device">>, "DEFAULT", batch, "UNKNOWN")
                 ELSE apply_rules(top_node, top_alarm, alarmed_ids, batch)

\* ------------------------------------------------------------- inputs
RECURSIVE SeqsUpTo(_, _)
SeqsUpTo(S, n) ==
    IF n = 0 THEN {<<>>}
    ELSE LET shorter == SeqsUpTo(S, n - 1)
         IN  shorter \cup {Append(s, x) : s \in {t \in shorter : Len(t) = n - 1}, x \in S}

GroupTags == {None} \cup (1..NumGroups)

\* layers of an analysed topology: below and above the unknown-device sort key
Layers == {1, UnknownRank + 1}

\* every dict {id: NetworkNode(id, ...)} over the ids 1..n: a node's key is its id
Topologies(n, layers, parents, groups) ==
    {[i \in 1..n |-> NetworkNode(i, f[i].layer, f[i].parent_id, f[i].redundancy_group)] :
        f \in [1..n -> [layer : layers, parent_id : parents, redundancy_group : groups]]}

\* alarm batches a caller may pass for the current topology
Batches ==
    SeqsUpTo({Alarm(d, "Link Down", s) : d \in DOMAIN topology \cup {Ghost}, s \in Severities},
             MaxAlarms)

\* ------------------------------------------------------------ actions
Init ==
    /\ topology \in Topologies(NumNodes, Layers, {None, Ghost} \cup (1..NumNodes), GroupTags)
    /\ alarms = <<>>
    /\ result = NoResult
    /\ pc = "idle"
    /\ root_cause_id = None
    /\ queue = <<>>
    /\ processed = {}
    /\ generated_alarms = <<>>

\* the caller builds the alarm list it is about to pass to analyze_alarms
ReceiveAlarms ==
    /\ pc = "idle"
    /\ \E batch \in Batches : alarms' = batch
    /\ pc' = "received"
    /\ UNCHANGED <<topology, result, root_cause_id, queue, processed, generated_alarms>>

\* faulty variant: alarms.sort(key=...) in place of sorted(alarms, key=...)
AnalyzeAlarms_sort_in_place ==
    /\ pc = "received"
    /\ result' = analyze_alarms(alarms)
    /\ alarms' = sorted_alarms(alarms)
    /\ pc' = "analyzed"
    /\ UNCHANGED <<topology, root_cause_id, queue, processed, generated_alarms>>

\* engine.analyze_alarms(alarms)
AnalyzeAlarms ==
    /\ pc = "received"
    /\ result' = analyze_alarms(alarms)
    /\ pc' = "analyzed"
    /\ UNCHANGED <<topology, alarms, root_cause_id, queue, processed, generated_alarms>>

\* ------------------------------------------- simulate_cascade_failure
\* the body of `for child in children`, run over the children in order
RECURSIVE visit_children(_, _)
visit_children(children, st) ==
    IF children = <<>> THEN st
    ELSE LET child == Head(children)
         IN  IF child.id \notin st.processed
             THEN visit_children(Tail(children),
                      [generated_alarms |-> Append(st.generated_alarms,
                                                   Alarm(child.id, "Unreachable", "WARNING")),
                       queue |-> Append(st.queue, child.id),
                       processed |-> st.processed \cup {child.id}])
             ELSE visit_children(Tail(children), st)

\* faulty variant: processed = set(), the root is not marked as processed
SimulateStart_root_not_processed ==
    /\ pc = "idle"
    /\ \E r \in DOMAIN topology \cup {Ghost} :
          /\ root_cause_id' = r
          /\ generated_alarms' = <<Alarm(r, "Interface Down", "CRITICAL")>>
          /\ queue' = <<r>>
          /\ processed' = {}
    /\ pc' = "simulate"
    /\ UNCHANGED <<topology, alarms, result>>

\* simulate_cascade_failure(root_cause_id, topology) up to the first loop test
SimulateStart ==
    /\ pc = "idle"
    /\ \E r \in DOMAIN topology \cup {Ghost} :
          /\ root_cause_id' = r
          /\ generated_alarms' = <<Alarm(r, "Interface Down", "CRITICAL")>>
          /\ queue' = <<r>>
          /\ processed' = {r}
    /\ pc' = "simulate"
    /\ UNCHANGED <<topology, alarms, result>>

\* faulty variant: a discovered child is emitted but not queued
SimulateStep_no_enqueue ==
    /\ pc = "simulate"
    /\ queue # <<>>
    /\ LET current_parent_id == Head(queue)
           children == SelectSeq(TopologyValues, LAMBDA n : n.parent_id = current_parent_id)
           fresh == SelectSeq(children, LAMBDA c : c.id \notin processed)
       IN  /\ generated_alarms' = generated_alarms \o
                  [i \in 1..Len(fresh) |-> Alarm(fresh[i].id, "Unreachable", "WARNING")]
           /\ queue' = Tail(queue)
           /\ processed' = processed \cup {fresh[i].id : i \in 1..Len(fresh)}
    /\ UNCHANGED <<topology, alarms, result, pc, root_cause_id>>

\* one iteration of `while queue`
SimulateStep ==
    /\ pc = "simulate"
    /\ queue # <<>>
    /\ LET current_parent_id == Head(queue)
           children == SelectSeq(TopologyValues, LAMBDA n : n.parent_id = current_parent_id)
           st == visit_children(children,
                     [generated_alarms |-> generated_alarms,
                      queue |-> Tail(queue),
                      processed |-> processed])
       IN  /\ generated_alarms' = st.generated_alarms
           /\ queue' = st.queue
           /\ processed' = st.processed
    /\ UNCHANGED <<topology, alarms, result, pc, root_cause_id>>

\* the loop test fails: return generated_alarms, which the caller keeps as its alarm list
SimulateReturn ==
    /\ pc = "simulate"
    /\ queue = <<>>
    /\ alarms' = generated_alarms
    /\ pc' = "received"
    /\ UNCHANGED <<topology, result, root_cause_id, queue, processed, generated_alarms>>

Next == ReceiveAlarms \/ AnalyzeAlarms \/ SimulateStart \/ SimulateStep \/ SimulateReturn

\* correlation passes over arbitrary batches and over simulated ones
Spec == Init /\ [][Next]_vars

\* ------------------------------------------- the simulate-then-analyze pipeline
NextSim == SimulateStart \/ SimulateStep \/ SimulateReturn \/ AnalyzeAlarms

InitIdle ==
    /\ alarms = <<>>
    /\ result = NoResult
    /\ pc = "idle"
    /\ root_cause_id = None
    /\ queue = <<>>
    /\ processed = {}
    /\ generated_alarms = <<>>

\* any parent links: forests, dangling parents, cycles, self-parents
InitCascade ==
    /\ topology \in Topologies(SimNodes, {1}, {None, Ghost} \cup (1..SimNodes), {None})
    /\ InitIdle

\* the interpreter runs the loop to its end: each enabled step is eventually taken
SpecCascade ==
    InitCascade /\ [][NextSim]_vars /\ WF_vars(SimulateStep) /\ WF_vars(SimulateReturn)

\* the topologies whose every parent_id is None or a node of a strictly smaller
\* layer: forests, layered from the roots down
LayeredForests(n, maxLayer, groups) ==
    UNION {{[i \in 1..n |-> NetworkNode(i, lay[i], par[i], grp[i])] :
                par \in {p \in [1..n -> {None} \cup (1..n)] :
                            \A i \in 1..n : Truthy(p[i]) => lay[p[i]] < lay[i]},
                grp \in [1..n -> groups]} :
           lay \in [1..n -> 1..maxLayer]}

InitForest ==
    /\ topology \in LayeredForests(SimNodes, ForestLayers, GroupTags)
    /\ InitIdle

SpecForest == InitForest /\ [][NextSim]_vars

\* =================================================================
\* Properties
\* =================================================================
\* a call of analyze_alarms(alarms) has returned result
Analyzed == pc = "analyzed"

AlarmedIds == {alarms[i].device_id : i \in 1..Len(alarms)}

\* the alarm analyze_alarms ranks first, and the node it resolves to
TopAlarm == sorted_alarms(alarms)[1]
TopNode == TopologyGet(TopAlarm.device_id)
TopResolved == alarms # <<>> /\ TopNode # NoNode

\* the ids of the nodes whose parent_id is p
ChildrenOf(p) == {i \in DOMAIN topology : topology[i].parent_id = p}

\* the ids of the nodes whose redundancy_group is g
GroupOf(g) == {i \in DOMAIN topology : topology[i].redundancy_group = g}

IsHAResult(r) == r.sop_key \in {"HA_TOTAL_FAILURE", "HA_PARTIAL_FAILURE"}

IsUnknownDeviceResult(r) ==
    /\ r.root_cause_node = NoNode
    /\ r.sop_key = "DEFAULT"
    /\ r.severity = "UNKNOWN"
    /\ r.related_alarms = alarms

\* C1: when the top-ranked alarm resolves to a node with a redundancy group,
\* the verdict is that node with an HA sop_key, never SILENT_FAILURE or
\* HIERARCHY_FAILURE, also when the node has a parent whose children are all alarmed.
C1_RedundancyPrecedesSilentParent ==
    (Analyzed /\ TopResolved /\ TopNode.redundancy_group # None) =>
        /\ result.root_cause_node = TopNode
        /\ IsHAResult(result)
        /\ result.sop_key \notin {"SILENT_FAILURE", "HIERARCHY_FAILURE"}

\* C1 witness: the top node is in a redundancy group and its parent, a topology
\* node other than itself, has all its children alarmed
C1_Witness ==
    /\ Analyzed /\ TopResolved
    /\ TopNode.redundancy_group # None
    /\ TopNode.parent_id \in DOMAIN topology
    /\ TopNode.parent_id # TopNode.id
    /\ Cardinality(ChildrenOf(TopNode.parent_id)) >= 2
    /\ ChildrenOf(TopNode.parent_id) \subseteq AlarmedIds
    /\ IsHAResult(result)

\* C2: the ranking puts every alarm of a topology device before every alarm of
\* an unknown device, so the unknown-device result is returned exactly when the
\* batch is non-empty and none of its alarms references a topology device.
C2_UnknownDevicesRankLast ==
    Analyzed =>
        /\ LET sorted == sorted_alarms(alarms)
           IN  \A i, j \in 1..Len(sorted) :
                   (sorted[i].device_id \notin DOMAIN topology
                    /\ sorted[j].device_id \in DOMAIN topology) => j < i
        /\ IsUnknownDeviceResult(result) <=>
               (alarms # <<>> /\ AlarmedIds \cap DOMAIN topology = {})

\* C3: with a top node outside any redundancy group, SILENT_FAILURE is returned
\* exactly when the node's parent_id is set, the parent is in the topology and
\* every child of the parent is alarmed; the verdict is then the parent,
\* CRITICAL, with no related alarms, and otherwise HIERARCHY_FAILURE on the top node.
C3_SilentParentIffAllChildrenDown ==
    (Analyzed /\ TopResolved /\ TopNode.redundancy_group = None) =>
        LET p == TopNode.parent_id
            fires == /\ p # None
                     /\ p \in DOMAIN topology
                     /\ ChildrenOf(p) \subseteq AlarmedIds
        IN  /\ (result.sop_key = "SILENT_FAILURE") <=> fires
            /\ fires => /\ result.root_cause_node = topology[p]
                        /\ result.severity = "CRITICAL"
                        /\ result.related_alarms = <<>>
            /\ ~fires => /\ result.sop_key = "HIERARCHY_FAILURE"
                         /\ result.root_cause_node = TopNode

\* C3 witness: the rule fired for a parent with two alarmed children
C3_Witness ==
    /\ Analyzed /\ TopResolved
    /\ TopNode.redundancy_group = None
    /\ TopNode.parent_id \in DOMAIN topology
    /\ Cardinality(ChildrenOf(TopNode.parent_id)) = 2
    /\ ChildrenOf(TopNode.parent_id) \subseteq AlarmedIds
    /\ result.sop_key = "SILENT_FAILURE"

\* C4: a SILENT_FAILURE verdict names a node that no alarm of the batch is about.
C4_SilentParentEmittedNothing ==
    (Analyzed /\ result.sop_key = "SILENT_FAILURE") =>
        result.root_cause_node.id \notin AlarmedIds

\* indices of the alarms of topology devices, and the least layer among them
KnownIdx == {i \in 1..Len(alarms) : alarms[i].device_id \in DOMAIN topology}
LayerAt(i) == topology[alarms[i].device_id].layer
MinLayerIdx == {i \in KnownIdx : \A j \in KnownIdx : LayerAt(i) <= LayerAt(j)}
EarliestMinLayerIdx == CHOOSE i \in MinLayerIdx : \A j \in MinLayerIdx : i <= j

C6_HATotalVersusPartial ==
    (Analyzed /\ TopResolved /\ TopNode.redundancy_group # None) =>
        LET total == GroupOf(TopNode.redundancy_group) \subseteq AlarmedIds
        IN  /\ result.root_cause_node = TopNode
            /\ result.related_alarms = alarms
            /\ total => result.sop_key = "HA_TOTAL_FAILURE" /\ result.severity = "CRITICAL"
            /\ ~total => result.sop_key = "HA_PARTIAL_FAILURE" /\ result.severity = "WARNING"

\* C6 witness: a partial failure of a group of two although every alarm is CRITICAL
C6_Witness ==
    /\ Analyzed /\ TopResolved
    /\ TopNode.redundancy_group # None
    /\ Cardinality(GroupOf(TopNode.redundancy_group)) >= 2
    /\ ~(GroupOf(TopNode.redundancy_group) \subseteq AlarmedIds)
    /\ \A i \in 1..Len(alarms) : alarms[i].severity = "CRITICAL"
    /\ result.sop_key = "HA_PARTIAL_FAILURE"
    /\ result.severity = "WARNING"

\* C9: no step changes the topology, and a call of analyze_alarms leaves the
\* caller's alarm list as it was: same length, order and alarms.
C9_NonMutation ==
    [][/\ topology' = topology
       /\ (pc = "received" => alarms' = alarms)]_vars

\* C9 witness: analyze_alarms has returned for a batch that its ranking reorders
C9_Witness ==
    /\ Analyzed
    /\ sorted_alarms(alarms) # alarms
    /\ result.related_alarms = alarms

\* ----------------------------------------------------- cascade simulator
\* the topology is a forest: every parent_id is None or a topology node, and
\* every node reaches a node without parent
RECURSIVE ReachesRoot(_, _)
ReachesRoot(i, fuel) ==
    IF topology[i].parent_id = None THEN TRUE
    ELSE IF fuel = 0 \/ topology[i].parent_id \notin DOMAIN topology THEN FALSE
    ELSE ReachesRoot(topology[i].parent_id, fuel - 1)

IsForest == \A i \in DOMAIN topology : ReachesRoot(i, Cardinality(DOMAIN topology))

\* the number of parent links from i up to r, -1 when r is not on i's chain
RECURSIVE DepthBelow(_, _, _)
DepthBelow(i, r, fuel) ==
    IF i = r THEN 0
    ELSE IF fuel = 0 \/ i \notin DOMAIN topology THEN -1
    ELSE IF topology[i].parent_id = None THEN -1
    ELSE LET d == DepthBelow(topology[i].parent_id, r, fuel - 1)
         IN  IF d < 0 THEN -1 ELSE d + 1

Depth(i) == DepthBelow(i, root_cause_id, Cardinality(DOMAIN topology))
ProperDescendants == {i \in DOMAIN topology : Depth(i) > 0}

\* the position of device d in the emitted sequence
EmittedAt(d) == CHOOSE k \in 1..Len(generated_alarms) : generated_alarms[k].device_id = d

SimulateReturned == pc \in {"received", "analyzed"} /\ root_cause_id # None

NoDeviceEmittedTwice ==
    \A k, l \in 1..Len(generated_alarms) :
        generated_alarms[k].device_id = generated_alarms[l].device_id => k = l

\* C8: on every topology, cycles and dangling parents included, a started
\* traversal eventually empties its queue and returns, and no device id is ever
\* in more than one emitted alarm.
C8_CascadeTerminates ==
    /\ (pc = "simulate") ~> (pc = "received" /\ queue = <<>>)
    /\ []NoDeviceEmittedTwice

\* the root lies on a cycle of parent links
RootOnCycle ==
    /\ root_cause_id \in DOMAIN topology
    /\ topology[root_cause_id].parent_id \in DOMAIN topology
    /\ DepthBelow(topology[root_cause_id].parent_id, root_cause_id,
                  Cardinality(DOMAIN topology)) >= 0

\* C8 witness: the traversal has returned for a root on a cycle of three nodes
C8_Witness ==
    /\ pc = "received" /\ root_cause_id # None
    /\ RootOnCycle
    /\ topology[root_cause_id].parent_id # root_cause_id
    /\ Len(generated_alarms) >= 3
    /\ queue = <<>>

\* every parent is a topology node of a strictly smaller layer
StrictlyLayered(t) ==
    \A i \in DOMAIN t :
        t[i].parent_id # None =>
            /\ t[i].parent_id \in DOMAIN t
            /\ t[t[i].parent_id].layer < t[i].layer

\* C10: on a strictly layered forest, analysing the cascade simulated for a
\* node R yields R, except that an R without redundancy group that is the only
\* child of a topology node yields that parent with SILENT_FAILURE; an R with
\* neither yields HIERARCHY_FAILURE with severity CRITICAL.
C10_SimulateThenAnalyzeRecoversRoot ==
    (Analyzed /\ root_cause_id \in DOMAIN topology /\ StrictlyLayered(topology)) =>
        LET R == topology[root_cause_id]
            onlyChild == /\ R.parent_id \in DOMAIN topology
                         /\ ChildrenOf(R.parent_id) = {R.id}
        IN  IF R.redundancy_group = None /\ onlyChild
            THEN /\ result.root_cause_node = topology[R.parent_id]
                 /\ result.sop_key = "SILENT_FAILURE"
            ELSE /\ result.root_cause_node = R
                 /\ R.redundancy_group = None =>
                        /\ result.sop_key = "HIERARCHY_FAILURE"
                        /\ result.severity = "CRITICAL"

\* C10 witness: R has a parent with another child, and a descendant of its own
C10_Witness ==
    /\ Analyzed /\ root_cause_id \in DOMAIN topology /\ StrictlyLayered(topology)
    /\ topology[root_cause_id].redundancy_group = None
    /\ topology[root_cause_id].parent_id \in DOMAIN topology
    /\ Cardinality(ChildrenOf(topology[root_cause_id].parent_id)) = 2
    /\ Len(alarms) = 2
    /\ result.sop_key = "HIERARCHY_FAILURE"
    /\ result.root_cause_node = topology[root_cause_id]
====
